---- MODULE Spec2Model ----
(***************************************************************************)
(* Model of the sinta scraper's two batch lookups:                         *)
(*   author(author_ids, output_format)              src/sinta/author.py     *)
(*   department(department_ids, affiliation_id, ..) src/sinta/department.py *)
(* One caller issues calls one after another.  A call fans its identifiers *)
(* out to one thread per identifier (run_thread), every thread fetches one *)
(* page, parses it and appends one record to the shared worker_result      *)
(* list; the caller joins, compacts and formats.  department() first gets  *)
(* the enumeration table of the affiliation, from the persisted JSON file  *)
(* or by a paginated crawl that it then persists.                          *)
(* The network is the environment: every response is chosen here with \E.  *)
(***************************************************************************)
EXTENDS Integers, Sequences, FiniteSets, TLC

\* ---------------------------------------------------------------- bounds
MaxId == 2        \* identifiers a caller passes are 1..MaxId
MaxLen == 2       \* longest identifier sequence of one call
PageCap == 3      \* listing pages one crawl may fetch in the model

Ids == 1..MaxId

\* the affiliation ids (parent keys) callers pass: the key of a lookup and one
\* other key, each with a cache file of its own
Affils == {1, 2}

\* all sequences over S of length 0..n
SeqsUpTo(S, n) == UNION {[1..m -> S] : m \in 0..n}

\* A caller passes one identifier or a sequence of identifiers.
Inputs ==
    {[scalar |-> TRUE, v |-> i] : i \in Ids}
        \cup {[scalar |-> FALSE, v |-> s] : s \in SeqsUpTo(Ids, MaxLen)}

\* output_format values a caller passes; "xml" is one the formatter does not know
Modes == {"dict", "list", "dataframe"}
ModeInputs == Modes \cup {"xml"}

\* ------------------------------------------------- util.utils (not in src/)
\* listify: a single identifier becomes a one-element sequence
listify(x) == IF x.scalar THEN <<x.v>> ELSE x.v

None == [none |-> TRUE]

\* compact_list: drops the absent (None) contributions
compact_list(l) == SelectSeq(l, LAMBDA r : r # None)

\* format_output: "dict" unwraps a single record, "list" always the sequence,
\* "dataframe" a table; any other mode is a configuration error
format_output(result, output_format) ==
    IF output_format = "dict"
    THEN IF Len(result) = 1
         THEN [ok |-> TRUE, shape |-> "record", records |-> result]
         ELSE [ok |-> TRUE, shape |-> "list", records |-> result]
    ELSE IF output_format = "list"
    THEN [ok |-> TRUE, shape |-> "list", records |-> result]
    ELSE IF output_format = "dataframe"
    THEN [ok |-> TRUE, shape |-> "table", records |-> result]
    ELSE [ok |-> FALSE, shape |-> "none", records |-> <<>>]

NoOutput == [ok |-> FALSE, shape |-> "none", records |-> <<>>]

NoRun ==
    [joined |-> FALSE, kind |-> "none", ids |-> <<>>, affil |-> 0, df |-> <<>>,
     wst |-> <<>>, records |-> <<>>]

\* ------------------------------------------------------- listing pages
\* One row (.d-item) of a departments listing page, by what the crawl reads
\* of it: the three tags, whether the link is a department link, whether the
\* link text holds "Authors", and the values carried by code and href.
Row(code, hash, dept, lvl) ==
    [name_tag |-> TRUE, code_tag |-> TRUE, level_tag |-> lvl,
     href_department |-> dept, text_authors |-> FALSE,
     code |-> code, hash |-> hash, univ |-> 7]

rowA == Row(1, 11, TRUE, TRUE)
rowB == Row(2, 12, TRUE, TRUE)
rowJunk == Row(0, 10, FALSE, TRUE)      \* not a department link: skipped
rowNoLevel == Row(2, 12, TRUE, FALSE)   \* a department row without level tag

\* the listing pages the site may answer with
Pages == {<<>>, <<rowA>>, <<rowJunk, rowB>>, <<rowJunk>>, <<rowA, rowNoLevel>>}

\* the row test of the crawl loop
Accepts(row) ==
    row.name_tag /\ row.code_tag /\ row.href_department /\ ~row.text_authors

\* a row the loop body raises on: accepted, and level_tag is None
RowRaises(row) == Accepts(row) /\ ~row.level_tag

department_info(row) ==
    [department_id |-> row.code, department_id_hash |-> row.hash,
     univ_id_hash |-> row.univ]

RECURSIVE PageEntries(_)
\* the entries the loop appends for one page's rows, in row order
PageEntries(rows) ==
    IF rows = <<>> THEN <<>>
    ELSE (IF Accepts(Head(rows)) THEN <<department_info(Head(rows))>> ELSE <<>>)
             \o PageEntries(Tail(rows))

PageRaises(rows) == \E i \in 1..Len(rows) : RowRaises(rows[i])

CrawlStopsNoEntries(rows) == PageEntries(rows) = <<>>

\* the crawl's stop test: no rows on the page
CrawlStops(rows) == rows = <<>>

\* ------------------------------------------------------- persisted table
NoFile == [exists |-> FALSE, keys |-> <<>>, obj |-> <<>>]

Hashes(table) == [i \in 1..Len(table) |-> table[i].department_id_hash]

Unique(s) == \A i, j \in 1..Len(s) : s[i] = s[j] => i = j

\* df.T.to_json: a JSON object keyed by hashed id, in table order
to_json(table) ==
    [exists |-> TRUE,
     keys |-> Hashes(table),
     obj |-> [h \in {table[i].department_id_hash : i \in 1..Len(table)} |->
                 (CHOOSE e \in {table[i] : i \in 1..Len(table)} :
                      e.department_id_hash = h)]]

\* pd.read_json(cache).T: one row per key of the object, in file order
read_json(file) == [i \in 1..Len(file.keys) |-> file.obj[file.keys[i]]]

CacheFileShared(affiliation_id) == 1

\* the cache file of an affiliation: <cache_path>/<affiliation_id>.json
CacheFile(affiliation_id) == affiliation_id

SubsetAll(table, idseq) == table

\* df[df.department_id.isin(ids)]: the rows whose department_id is among ids
Subset(table, idseq) ==
    SelectSeq(table, LAMBDA e : \E i \in 1..Len(idseq) : idseq[i] = e.department_id)

\* ------------------------------------------------------------- records
AuthorRecord(author_id) ==
    [id |-> author_id, url |-> <<"authors/profile", author_id>>]

DepartmentRecord(department_id, affiliation_id, affiliation_code) ==
    [id |-> department_id,
     url |-> <<"departments/profile", affiliation_id, affiliation_code, department_id>>]

\* -------------------------------------------------------------- state
VARIABLES
    pc,             \* where the caller is: idle, affil, crawl, crawled, filter, workers, done
    kind,           \* "author" or "department" ("none" before the first call)
    ids,            \* the listified identifiers of the call
    affil,          \* affiliation_id of a department call (0 otherwise)
    mode,           \* output_format of the call
    cache,          \* file name -> persisted table (NoFile when absent)
    page,           \* fetch_all_department: page
    crawl_result,   \* fetch_all_department: worker_result
    log,            \* the listing pages fetched by the running crawl, in order
    nPages,         \* listing pages fetched by this call
    df,             \* department: df
    keys,           \* run_thread: the key of each thread
    wst,            \* each thread: running, done (appended), failed (raised)
    acc,            \* run_thread: the shared worker_result
    status,         \* none, returned, raised
    error,          \* which error was raised
    output,         \* what the call returned
    served,         \* affiliation -> table the last earlier lookup worked from
    crawls,         \* affiliation -> crawls persisted since the file was absent
    prev            \* the last earlier call that joined its threads

vars == <<pc, kind, ids, affil, mode, cache, page, crawl_result, log, nPages, df,
          keys, wst, acc, status, error, output, served, crawls, prev>>

callVars == <<kind, ids, affil, mode>>
crawlVars == <<page, crawl_result, log, nPages>>
threadVars == <<keys, wst, acc>>
histVars == <<served, crawls, prev>>

Init ==
    /\ pc = "idle"
    /\ kind = "none"
    /\ ids = <<>>
    /\ affil = 0
    /\ mode = "dict"
    /\ cache = [f \in Affils |-> NoFile]
    /\ page = 1
    /\ crawl_result = <<>>
    /\ log = <<>>
    /\ nPages = 0
    /\ df = <<>>
    /\ keys = <<>>
    /\ wst = <<>>
    /\ acc = <<>>
    /\ status = "none"
    /\ error = "none"
    /\ output = NoOutput
    /\ served = [a \in Affils |-> <<>>]
    /\ crawls = [a \in Affils |-> 0]
    /\ prev = NoRun

Idle == pc = "idle"

\* the run a call leaves behind: its input, the table it worked from, how each
\* of its threads ended, and the records in the order it returned them
ThisRun ==
    [joined |-> TRUE, kind |-> kind, ids |-> ids, affil |-> affil, df |-> df,
     wst |-> wst, records |-> compact_list(acc)]

\* what a call ends with: served remembers the table the call worked from
Remember ==
    IF kind' = "department" /\ df' # <<>>
    THEN served' = [served EXCEPT ![affil'] = df']
    ELSE served' = served

\* run_thread: one thread per key, all started together
StartThreads(ks) ==
    /\ keys' = ks
    /\ wst' = [i \in 1..Len(ks) |-> "running"]
    /\ acc' = <<>>

\* run_thread's join, compact_list and format_output
Finish ==
    /\ pc = "workers"
    /\ \A i \in 1..Len(wst) : wst[i] \in {"done", "failed"}
    /\ LET out == format_output(compact_list(acc), mode) IN
         /\ status' = IF out.ok THEN "returned" ELSE "raised"
         /\ error' = IF out.ok THEN "none" ELSE "config"
         /\ output' = out
    /\ pc' = "done"
    /\ UNCHANGED <<callVars, cache, crawlVars, df, threadVars, crawls, prev>>
    /\ Remember

\* author(author_ids, output_format): listify, then run_thread starts the threads
AuthorBegin(author_ids, output_format) ==
    /\ kind' = "author"
    /\ ids' = author_ids
    /\ affil' = 0
    /\ mode' = output_format
    /\ StartThreads(author_ids)
    /\ pc' = "workers"
    /\ page' = 1 /\ crawl_result' = <<>> /\ log' = <<>> /\ nPages' = 0
    /\ df' = <<>>
    /\ status' = "none" /\ error' = "none" /\ output' = NoOutput
    /\ UNCHANGED <<cache, served, crawls>>

\* a caller calls author(...)
CallAuthor(input, output_format) ==
    /\ Idle
    /\ AuthorBegin(listify(input), output_format)
    /\ UNCHANGED prev

\* what get(url) can bring a worker: a network error (raised by get), a page
\* that lacks a structural position the parse reads, a well-formed page
Responses == {"neterror", "malformed", "page"}

WorkerRecordByIndex(i) ==
    IF kind = "author"
    THEN AuthorRecord(i)
    ELSE DepartmentRecord(i, affil, {})

\* the record a worker builds from a well-formed page
WorkerRecord(i) ==
    IF kind = "author"
    THEN AuthorRecord(keys[i])
    ELSE DepartmentRecord(keys[i], affil,
                          {df[j].univ_id_hash : j \in
                              {j \in 1..Len(df) : df[j].department_id_hash \in
                                  {keys[n] : n \in 1..Len(keys)}}})

WorkerAppendPartial(i, resp, result) ==
    IF resp = "page"
    THEN Append(result, WorkerRecord(i))
    ELSE Append(result, [id |-> keys[i], url |-> <<>>])

WorkerAppendOnce(i, resp, result) ==
    IF resp = "page" /\ \A n \in 1..Len(result) : result[n] # WorkerRecord(i)
    THEN Append(result, WorkerRecord(i))
    ELSE result

\* what a worker leaves in worker_result: get or the parse raises before the
\* append that ends the worker; a well-formed page appends one record
WorkerAppend(i, resp, result) ==
    IF resp = "page" THEN Append(result, WorkerRecord(i)) ELSE result

\* a worker thread: its request is in flight from the start of the thread; when
\* the response is there it parses and appends without suspending
Worker(i) ==
    /\ pc = "workers"
    /\ i \in 1..Len(wst)
    /\ wst[i] = "running"
    /\ \E resp \in Responses :
           /\ acc' = WorkerAppend(i, resp, acc)
           /\ wst' = [wst EXCEPT ![i] = IF resp = "page" THEN "done" ELSE "failed"]
    /\ UNCHANGED <<pc, callVars, cache, crawlVars, df, keys, status, error,
                   output, histVars>>

Raise(err) ==
    /\ pc' = "done"
    /\ status' = "raised"
    /\ error' = err
    /\ output' = NoOutput

CacheHitNever(affiliation_id) == FALSE

\* cache.exists()
CacheHit(affiliation_id) == cache[CacheFile(affiliation_id)].exists

\* department(...): cache lookup; a hit loads the table, a miss starts the crawl
DepartmentBegin(department_ids, affiliation_id, output_format) ==
    /\ kind' = "department"
    /\ ids' = department_ids
    /\ affil' = affiliation_id
    /\ mode' = output_format
    /\ keys' = <<>> /\ wst' = <<>> /\ acc' = <<>>
    /\ page' = 1 /\ crawl_result' = <<>> /\ log' = <<>> /\ nPages' = 0
    /\ status' = "none" /\ error' = "none" /\ output' = NoOutput
    /\ IF CacheHit(affiliation_id)
       THEN /\ df' = read_json(cache[CacheFile(affiliation_id)])
            /\ pc' = "filter"
       ELSE /\ df' = <<>>
            /\ pc' = "affil"
    /\ UNCHANGED <<cache, served, crawls>>

\* a caller calls department(...)
CallDepartment(input, affiliation_id, output_format) ==
    /\ Idle
    /\ DepartmentBegin(listify(input), affiliation_id, output_format)
    /\ UNCHANGED prev

\* the caller has the result (or the exception) of the call; its locals are gone
Return ==
    /\ pc = "done"
    /\ pc' = "idle"
    /\ kind' = "none" /\ ids' = <<>> /\ affil' = 0 /\ mode' = "dict"
    /\ page' = 1 /\ crawl_result' = <<>> /\ log' = <<>> /\ nPages' = 0
    /\ df' = <<>>
    /\ keys' = <<>> /\ wst' = <<>> /\ acc' = <<>>
    /\ status' = "none" /\ error' = "none" /\ output' = NoOutput
    /\ prev' = NoRun
    /\ UNCHANGED <<cache, served, crawls>>

\* the caller repeats the call it has just made, with the same arguments; the
\* finished run is kept to compare the two
Rerun ==
    /\ pc = "done"
    /\ error \in {"none", "config"}
    /\ IF kind = "author"
       THEN AuthorBegin(ids, mode)
       ELSE DepartmentBegin(ids, affil, mode)
    /\ prev' = ThisRun

\* fetch_all_department: sinta.affiliation(affiliation_id)["code"]
AffiliationCode(ok) ==
    /\ pc = "affil"
    /\ IF ok
       THEN /\ pc' = "crawl"
            /\ UNCHANGED <<status, error, output>>
       ELSE Raise("fetch")
    /\ UNCHANGED <<callVars, cache, crawlVars, df, threadVars, histVars>>

\* one turn of the crawl loop on a fetched page
CrawlTurn(rows) ==
    /\ log' = Append(log, [page |-> page, rows |-> rows])
    /\ nPages' = nPages + 1
    /\ IF CrawlStops(rows)
       THEN /\ pc' = "crawled"
            /\ UNCHANGED <<page, crawl_result, status, error, output>>
       ELSE IF PageRaises(rows)
       THEN /\ Raise("parse")
            /\ UNCHANGED <<page, crawl_result>>
       ELSE /\ crawl_result' = crawl_result \o PageEntries(rows)
            /\ page' = page + 1
            /\ UNCHANGED <<pc, status, error, output>>

\* fetch_all_department: get(url) of the next page, and the loop body
CrawlPage ==
    /\ pc = "crawl"
    /\ page <= PageCap
    /\ \/ /\ Raise("fetch")      \* network error, or no parent-summary block
          /\ UNCHANGED <<page, crawl_result, log, nPages>>
       \/ \E rows \in Pages : CrawlTurn(rows)
    /\ UNCHANGED <<callVars, cache, df, threadVars, histVars>>

\* the table department() builds from the crawl's list and writes to the file
Persisted(result) == to_json(result)

\* department lines 44-48: DataFrame, set_index, to_json
Persist ==
    /\ pc = "crawled"
    /\ IF crawl_result = <<>>
       THEN /\ Raise("keyerror")          \* set_index on a frame without columns
            /\ UNCHANGED <<cache, df, crawls>>
       ELSE IF ~Unique(Hashes(crawl_result))
       THEN /\ Raise("valueerror")        \* to_json: columns must be unique
            /\ UNCHANGED <<cache, df, crawls>>
       ELSE /\ cache' = [cache EXCEPT ![CacheFile(affil)] = Persisted(crawl_result)]
            /\ df' = crawl_result
            /\ crawls' = [crawls EXCEPT ![affil] = @ + 1]
            /\ pc' = "filter"
            /\ UNCHANGED <<status, error, output>>
    /\ log' = <<>> /\ page' = 1 /\ crawl_result' = <<>>
    /\ UNCHANGED <<callVars, nPages, threadVars, served, prev>>

AssertionDropped(subset) == TRUE

\* assert len(subset) > 0
AssertionHolds(subset) == Len(subset) > 0

\* department lines 50-62: the row filter, the assertion, run_thread's start
Filter ==
    /\ pc = "filter"
    /\ LET subset == Subset(df, ids) IN
         IF AssertionHolds(subset)
         THEN /\ StartThreads(Hashes(subset))
              /\ pc' = "workers"
              /\ UNCHANGED <<status, error, output, served>>
         ELSE /\ Raise("assert")
              /\ UNCHANGED threadVars
              /\ served' = [served EXCEPT ![affil] = df]
    /\ UNCHANGED <<callVars, cache, crawlVars, df, crawls, prev>>

\* the environment: somebody deletes a persisted file between two calls
DeleteCache(a) ==
    /\ Idle
    /\ cache[CacheFile(a)].exists
    /\ cache' = [cache EXCEPT ![CacheFile(a)] = NoFile]
    /\ served' = [served EXCEPT ![a] = <<>>]
    /\ crawls' = [crawls EXCEPT ![a] = 0]
    /\ UNCHANGED <<pc, callVars, crawlVars, df, threadVars, status, error, output, prev>>

Next ==
    \/ \E input \in Inputs, m \in ModeInputs : CallAuthor(input, m)
    \/ \E input \in Inputs, a \in Affils, m \in ModeInputs : CallDepartment(input, a, m)
    \/ \E ok \in BOOLEAN : AffiliationCode(ok)
    \/ CrawlPage
    \/ Persist
    \/ Filter
    \/ \E i \in 1..MaxLen : Worker(i)
    \/ Finish
    \/ Return
    \/ \E a \in Affils : DeleteCache(a)

Spec == Init /\ [][Next]_vars

\* the same, with calls that are repeated
NextRuns == Next \/ Rerun

SpecRuns == Init /\ [][NextRuns]_vars

\* ================================================================ claims
Count(s, x) == Cardinality({i \in 1..Len(s) : s[i] = x})

Range(s) == {s[i] : i \in 1..Len(s)}

RecordIds(records) == [i \in 1..Len(records) |-> records[i].id]

\* the call has joined its threads and formatted (it ended in Finish)
Joined == pc = "done" /\ status # "none" /\ error \in {"none", "config"}

AllSucceeded == \A i \in 1..Len(wst) : wst[i] = "done"

\* the rows of the table whose human-readable id the caller asked for
Matching == {j \in 1..Len(df) : df[j].department_id \in Range(ids)}

RECURSIVE LogEntries(_, _)
\* the entries of the first n logged pages, in page order
LogEntries(l, n) ==
    IF n = 0 THEN <<>> ELSE LogEntries(l, n - 1) \o PageEntries(l[n].rows)

\* ---- C1 as stated: when every worker succeeds, a batch call with a
\* non-empty input returns exactly one record per input identifier, each
\* carrying the identifier that produced it.
C1_OneRecordPerInputId ==
    (Joined /\ AllSucceeded /\ Len(ids) > 0 /\ mode \in Modes)
        => /\ status = "returned"
           /\ Len(output.records) = Len(ids)
           /\ \A x \in Range(keys) : Count(RecordIds(output.records), x) = Count(keys, x)

\* ---- C1 amended: when every worker succeeds, author(ids) returns one record
\* per input identifier (with multiplicity) and department(ids, key) returns
\* one record per table row whose human-readable id occurs in ids; each record
\* carries the identifier handed to its worker (author id, row's hashed id).
C1_OneRecordPerDispatchedId ==
    (Joined /\ AllSucceeded /\ mode \in Modes)
        => /\ status = "returned"
           /\ kind = "author" =>
                /\ Len(output.records) = Len(ids)
                /\ \A x \in Ids : Count(RecordIds(output.records), x) = Count(ids, x)
           /\ kind = "department" =>
                /\ Len(output.records) = Cardinality(Matching)
                /\ \A j \in 1..Len(df) :
                       Count(RecordIds(output.records), df[j].department_id_hash)
                           = IF j \in Matching THEN 1 ELSE 0

C1_Witness ==
    /\ Joined /\ AllSucceeded /\ status = "returned"
    /\ kind = "department"
    /\ Len(ids) = 2
    /\ Len(output.records) = 1

C3_SecondLookupServedFromFile ==
    (kind = "department" /\ pc \in {"filter", "workers"})
        => /\ crawls[affil] = 1
           /\ IF served[affil] # <<>>
              THEN nPages = 0 /\ df = served[affil]
              ELSE nPages >= 1

C3_Witness ==
    /\ kind = "department" /\ pc = "filter"
    /\ served[affil] # <<>>
    /\ df = served[affil]

\* ---- C4: the row filter dispatches exactly the rows whose human-readable id
\* is among the caller's ids; when no row matches the call ends in the fatal
\* assertion, not in an empty success, and no worker was started.
C4_RowFilter ==
    /\ (kind = "department" /\ pc = "workers")
           => /\ Len(keys) = Cardinality(Matching)
              /\ \A j \in 1..Len(df) :
                     Count(keys, df[j].department_id_hash) = IF j \in Matching THEN 1 ELSE 0
    /\ (kind = "department" /\ pc = "done" /\ df # <<>> /\ Matching = {})
           => status = "raised" /\ error = "assert" /\ wst = <<>>
    /\ error = "assert" => Matching = {} /\ df # <<>>

C4_Witness ==
    /\ kind = "department" /\ error = "assert"
    /\ Len(ids) > 0
    /\ Len(df) > 0

\* ---- C5 as stated: a call that fails with the configuration error has
\* had no worker fetch answered and has fetched no listing page.
C5_ConfigErrorBeforeNetwork ==
    error = "config"
        => /\ nPages = 0
           /\ \A i \in 1..Len(wst) : wst[i] \notin {"done", "failed"}

\* ---- C6 as stated: an input holding the same identifier twice, fetched
\* with success, makes two fetches and returns two equal records, in the
\* plain and in the hierarchical lookup.
C6_DuplicateFetchedTwice ==
    (Joined /\ AllSucceeded /\ status = "returned" /\ Len(ids) = 2 /\ ids[1] = ids[2])
        => /\ Len(keys) = 2
           /\ Len(output.records) = 2
           /\ output.records[1] = output.records[2]

\* ---- C6 amended: author(ids) starts one worker per occurrence of an
\* identifier and, all fetches succeeding, returns as many equal records as
\* the identifier occurs; department(ids, key) starts one worker per matching
\* row however often the row's id occurs in ids.
C6_NoDeduplicationInAuthor ==
    /\ (kind = "author" /\ pc \in {"workers", "done"})
           => \A x \in Ids : Count(keys, x) = Count(ids, x)
    /\ (kind = "author" /\ Joined /\ AllSucceeded /\ status = "returned")
           => \A x \in Ids : Count(output.records, AuthorRecord(x)) = Count(ids, x)
    /\ (kind = "department" /\ pc \in {"workers", "done"})
           => \A j \in Matching : Count(keys, df[j].department_id_hash) <= 1

C6_Witness ==
    /\ kind = "author" /\ Joined /\ status = "returned"
    /\ Len(ids) = 2 /\ ids[1] = ids[2]
    /\ Len(output.records) = 2
    /\ output.records[1] = output.records[2]

\* ---- C7 as stated: two runs of the same call, on the same table and with
\* the same workers failing, return their records in the same order.
C7_SameOrderEveryRun ==
    (Joined /\ prev.joined /\ prev.kind = kind /\ prev.ids = ids /\ prev.affil = affil
        /\ prev.df = df /\ Len(prev.wst) = Len(wst)
        /\ \A i \in 1..Len(wst) : (prev.wst[i] = "done") <=> (wst[i] = "done"))
        => compact_list(acc) = prev.records

\* ---- C8 as stated: a lookup with an empty identifier sequence returns an
\* empty output and fetches nothing, for author and for department (calls
\* that a failed fetch or a malformed listing page ended are left aside).
C8_EmptyInputEmptyOutput ==
    (pc = "done" /\ ids = <<>> /\ mode \in Modes /\ error \in {"none", "assert"})
        => /\ status = "returned"
           /\ output.records = <<>>
           /\ nPages = 0
           /\ wst = <<>>

\* ---- C8 amended: with an empty identifier sequence no worker is started;
\* author returns the empty list (or table) without any fetch; department never returns:
\* it raises, the fatal assertion once it has a table (crawled first when no
\* file is persisted).
C8_EmptyInput ==
    ids = <<>>
        => /\ wst = <<>>
           /\ kind = "author" => nPages = 0
           /\ (kind = "author" /\ pc = "done" /\ mode \in Modes)
                  => status = "returned" /\ output.shape # "record" /\ output.records = <<>>
           /\ (kind = "department" /\ pc = "done")
                  => /\ status = "raised"
                     /\ df # <<>> => error = "assert"

C8_Witness ==
    /\ kind = "department" /\ ids = <<>> /\ pc = "done"
    /\ error = "assert"
    /\ nPages > 0

\* ---- C9 as stated: the crawl stops after the first fetched page that
\* yields zero entries, and returns the entries of the pages before it.
C9_StopsAtFirstPageWithoutEntries ==
    pc = "crawled"
        => /\ PageEntries(log[Len(log)].rows) = <<>>
           /\ \A n \in 1..(Len(log) - 1) : PageEntries(log[n].rows) # <<>>
           /\ crawl_result = LogEntries(log, Len(log) - 1)

\* ---- C9 amended: pages are fetched in order 1, 2, 3, ...; the crawl goes on
\* while the fetched page has rows and stops right after the first page with
\* zero rows (a page whose rows are all skipped yields no entry and does not
\* stop it); it returns the entries of the pages before that page, in page
\* order.
C9_StopsAtFirstPageWithoutRows ==
    /\ pc \in {"crawl", "crawled"}
           => /\ nPages = Len(log)
              /\ \A n \in 1..Len(log) : log[n].page = n
    /\ pc = "crawl"
           => /\ page = Len(log) + 1
              /\ \A n \in 1..Len(log) : log[n].rows # <<>>
              /\ crawl_result = LogEntries(log, Len(log))
    /\ pc = "crawled"
           => /\ Len(log) >= 1
              /\ log[Len(log)].rows = <<>>
              /\ \A n \in 1..(Len(log) - 1) : log[n].rows # <<>>
              /\ crawl_result = LogEntries(log, Len(log) - 1)

C9_Witness ==
    /\ pc = "crawled"
    /\ Len(log) = 3
    /\ PageEntries(log[1].rows) # <<>>
    /\ PageEntries(log[2].rows) = <<>>

\* The steps C10 allows: a persisted table is written only by a crawl that ran to its
\* empty page, whole, into the file of the crawled key, and only when the
\* file was absent; no step of a lookup changes or removes a persisted table;
\* a lookup past the cache step works from the whole persisted table.
C10_Step ==
    \A a \in Affils :
        cache'[a] # cache[a]
            => IF cache'[a].exists
               THEN /\ ~cache[a].exists
                    /\ pc = "crawled" /\ affil = a
                    /\ log[Len(log)].rows = <<>>
                    /\ read_json(cache'[a]) = LogEntries(log, Len(log))
                    /\ Len(read_json(cache'[a])) > 0
               ELSE Idle /\ pc' = pc

C10_Served ==
    (kind = "department" /\ pc \in {"filter", "workers"})
        => /\ cache[affil].exists
           /\ df = read_json(cache[affil])

\* ---- C10: in every state a lookup past the cache step works from the whole
\* persisted table, and every step keeps the persisted tables: a file appears
\* only as the whole result of a crawl that reached its empty page, and
\* disappears only by a deletion between calls.
C10_CacheEntryInvariant == []C10_Served /\ [][C10_Step]_vars

C10_Witness ==
    /\ kind = "department" /\ pc = "workers"
    /\ nPages = 0
    /\ Len(df) = 2

====
